---- MODULE Spec2Model ----
(***************************************************************************)
(* A model of the openai client library: the two backends and the dispatch *)
(* wrapper (client.rs), the response resolver (client.rs, resolve_response)*)
(* with the error kinds of core/response_wrapper.rs, the chat request      *)
(* builder and the chat calls (api/chat.rs), and the prompt template       *)
(* (api/extraction_prompt.rs).                                             *)
(*                                                                         *)
(* Strings.  A program string is a sequence of chunks, each chunk a piece  *)
(* of text; the string is the concatenation of its chunks (Text).  A       *)
(* control character (line feed, carriage return) is always a chunk of its *)
(* own, so that the byte-level tests of the code (a header value may hold  *)
(* no control byte, a line ends at a line feed) can be made on chunks.     *)
(* Option<T> is a sequence of length at most one.                          *)
(***************************************************************************)
EXTENDS Integers, Sequences, FiniteSets, TLC

VARIABLES
    client,     \* the backend held by the dispatch wrapper (ClientEnum)
    given,      \* the arguments the backend was constructed with
    calls,      \* the get/post calls in flight, one per caller slot
    lastOp,     \* the last headers()/api_key()/api_base() call and how it ended
    builder,    \* the CreateChatRequestBuilder being filled
    chat,       \* the outcome of the last build()/create_with_template()
    template,   \* the PromptTemplate
    objects,    \* the name -> value mapping, in the map's iteration order
    rendered    \* the prompts rendered so far: <<mapping as passed, prompt>>

vars == <<client, given, calls, lastOp, builder, chat, template, objects, rendered>>

(* ------------------------------ bounds ------------------------------- *)

NCalls == 2         \* caller slots of the concurrent specification
MaxMessages == 2    \* messages given to the request builder
MaxFields == 2      \* field descriptors of a template
MaxRenders == 2     \* renders kept of one template

(* ------------------------------ strings ------------------------------ *)

L(t) == <<t>>

RECURSIVE Text(_)
Text(s) == IF s = <<>> THEN "" ELSE Head(s) \o Text(Tail(s))

None == <<>>
Some(x) == <<x>>
IsSome(o) == o # <<>>
Unwrap(o) == o[1]

LF == "\n"
ControlChars == {"\n", "\r"}

\* http::HeaderValue::from_str, which str::parse calls: every byte must be
\* visible ASCII, a tab or above 127; a control byte is refused.
IsHeaderValue(s) == \A i \in 1..Len(s) : s[i] \notin ControlChars

(* ------------------------------- JSON -------------------------------- *)

JStr(s) == [t |-> "str", s |-> s]
JNum(n) == [t |-> "num", n |-> n]
JBool(b) == [t |-> "bool", b |-> b]
JNull == [t |-> "null"]
JArr(a) == [t |-> "arr", a |-> a]
JObj(f) == [t |-> "obj", f |-> f]
NotJson == [t |-> "invalid"]     \* bytes that are no JSON document
JMissing == [t |-> "missing"]    \* what a lookup of an absent key yields

Field(v, k) == IF v.t = "obj" /\ k \in DOMAIN v.f THEN v.f[k] ELSE JMissing

(* --------------------- core/response_wrapper.rs ---------------------- *)

ErrorKinds == {"Reqwest", "ApiError", "JSONDeserialize", "StreamError", "InvalidArgument"}

Ok(v) == [kind |-> "Ok", value |-> v]
ErrReqwest == [kind |-> "Reqwest"]
ErrApiError(e) == [kind |-> "ApiError", error |-> e]
ErrJSONDeserialize == [kind |-> "JSONDeserialize"]
ErrInvalidArgument(msg) == [kind |-> "InvalidArgument", msg |-> msg]

\* A decoder yields <<value>>, or <<>> when the JSON does not match the type.
DecodeString(v) == IF v.t = "str" THEN <<v.s>> ELSE <<>>

\* u32: a negative number is refused (the numbers of the model stay far below 2^32).
DecodeU32(v) == IF v.t = "num" /\ v.n >= 0 THEN <<v.n>> ELSE <<>>

\* Option<String>: an absent key and null are None.
DecodeOptString(v) ==
    IF v.t \in {"missing", "null"} THEN <<None>>
    ELSE IF v.t = "str" THEN <<Some(v.s)>>
    ELSE <<>>

\* Option<serde_json::Value>: any JSON value is accepted.
DecodeOptValue(v) == IF v.t \in {"missing", "null"} THEN None ELSE Some(v)

DecodeApiErrorDetail(v) ==
    LET message == DecodeString(Field(v, "message"))
        type == DecodeString(Field(v, "type"))
    IN  IF v.t = "obj" /\ message # <<>> /\ type # <<>>
        THEN <<[message |-> message[1], type |-> type[1],
                param |-> DecodeOptValue(Field(v, "param")),
                code |-> DecodeOptValue(Field(v, "code"))]>>
        ELSE <<>>

DecodeApiErrorResponse(v) ==
    LET error == DecodeApiErrorDetail(Field(v, "error"))
    IN  IF v.t = "obj" /\ error # <<>> THEN <<[error |-> error[1]]>> ELSE <<>>

(* -------------------- api/chat.rs: response types -------------------- *)

\* enum Role with #[serde(rename_all = "lowercase")]: the variants and their wire names.
Roles == {"System", "User", "Assistant"}

RoleWire(role) ==
    CASE role = "System" -> "system"
      [] role = "User" -> "user"
      [] role = "Assistant" -> "assistant"

DecodeRole(v) ==
    IF v.t = "str" /\ \E r \in Roles : RoleWire(r) = Text(v.s)
    THEN <<CHOOSE r \in Roles : RoleWire(r) = Text(v.s)>>
    ELSE <<>>

DecodeChatCompletionMessage(v) ==
    LET role == DecodeRole(Field(v, "role"))
        content == DecodeString(Field(v, "content"))
        name == DecodeOptString(Field(v, "name"))
    IN  IF v.t = "obj" /\ role # <<>> /\ content # <<>> /\ name # <<>>
        THEN <<[role |-> role[1], content |-> content[1], name |-> name[1]]>>
        ELSE <<>>

DecodeChatUsage(v) ==
    LET p == DecodeU32(Field(v, "prompt_tokens"))
        c == DecodeU32(Field(v, "completion_tokens"))
        t == DecodeU32(Field(v, "total_tokens"))
    IN  IF v.t = "obj" /\ p # <<>> /\ c # <<>> /\ t # <<>>
        THEN <<[prompt_tokens |-> p[1], completion_tokens |-> c[1], total_tokens |-> t[1]]>>
        ELSE <<>>

DecodeChatChoice(v) ==
    LET message == DecodeChatCompletionMessage(Field(v, "message"))
        finish == DecodeString(Field(v, "finish_reason"))
        index == DecodeU32(Field(v, "index"))
    IN  IF v.t = "obj" /\ message # <<>> /\ finish # <<>> /\ index # <<>>
        THEN <<[message |-> message[1], finish_reason |-> finish[1], index |-> index[1]]>>
        ELSE <<>>

DecodeChoices(v) ==
    IF v.t = "arr" /\ \A i \in 1..Len(v.a) : DecodeChatChoice(v.a[i]) # <<>>
    THEN <<[i \in 1..Len(v.a) |-> DecodeChatChoice(v.a[i])[1]]>>
    ELSE <<>>

DecodeChatResponse(v) ==
    LET id == DecodeString(Field(v, "id"))
        object == DecodeString(Field(v, "object"))
        created == DecodeU32(Field(v, "created"))
        choices == DecodeChoices(Field(v, "choices"))
        usage == DecodeChatUsage(Field(v, "usage"))
    IN  IF v.t = "obj" /\ id # <<>> /\ object # <<>> /\ created # <<>>
           /\ choices # <<>> /\ usage # <<>>
        THEN <<[id |-> id[1], object |-> object[1], created |-> created[1],
                choices |-> choices[1], usage |-> usage[1]]>>
        ELSE <<>>

(* ----------------------------- client.rs ----------------------------- *)

ORGANIZATION_HEADER == "OpenAI-Organization"

\* The outcome of an operation that returns no Result: a value, or a panic.
Returned(v) == [panicked |-> FALSE, value |-> v]
Panicked == [panicked |-> TRUE]

ClientBaseNew(api_key, base_url) == [api_key |-> api_key, base_url |-> base_url]

\* ClientBase::headers: HeaderMap::new().  A header map is a set of
\* <<name, value>> pairs.
ClientBaseHeaders(base) == {}

ClientBaseApiKey(base) == base.api_key

ClientBaseApiBase(base) == base.base_url

OpenAINew(api_key, org_id) ==
    [kind |-> "OpenAI",
     base |-> ClientBaseNew(api_key, L("https://api.openai.com/v1")),
     org_id |-> org_id]

AzureOpenAINew(api_key, resource_name, deployment_id, api_version) ==
    [kind |-> "AzureOpenAI",
     base |-> ClientBaseNew(api_key, L("https://") \o resource_name \o L(".openai.azure.com")),
     resource_name |-> resource_name,
     deployment_id |-> deployment_id,
     api_version |-> api_version]

\* The constructor call that `args` describes.
Construct(args) ==
    IF args.kind = "OpenAI"
    THEN OpenAINew(args.api_key, args.org_id)
    ELSE AzureOpenAINew(args.api_key, args.resource_name, args.deployment_id, args.api_version)

\* format!("/openai/deployments/{}/{}?api-version={}", deployment_id, route, api_version)
route_with_deployment(self, route) ==
    L("/openai/deployments/") \o self.deployment_id \o L("/") \o route
        \o L("?api-version=") \o self.api_version

\* impl ReqClient for OpenAI: headers().  org_id.parse().unwrap() panics when
\* the identifier is no header value.
OpenAIHeaders(self) ==
    IF IsSome(self.org_id)
    THEN IF IsHeaderValue(Unwrap(self.org_id))
         THEN Returned(ClientBaseHeaders(self.base)
                       \cup {<<ORGANIZATION_HEADER, Text(Unwrap(self.org_id))>>})
         ELSE Panicked
    ELSE Returned(ClientBaseHeaders(self.base))

AzureOpenAIHeaders(self) == Returned(ClientBaseHeaders(self.base))

\* The three accessors of the capability interface, as each backend has them;
\* ClientEnum forwards to the variant it holds, so a call through the wrapper
\* and a direct call evaluate the same arm.
BackendHeaders(self) ==
    IF self.kind = "OpenAI" THEN OpenAIHeaders(self) ELSE AzureOpenAIHeaders(self)

BackendApiKey(self) == Returned(ClientBaseApiKey(self.base))

BackendApiBase(self) == Returned(ClientBaseApiBase(self.base))

ClientEnumAccessor(self, op) ==
    CASE op = "headers" -> BackendHeaders(self)
      [] op = "api_key" -> BackendApiKey(self)
      [] op = "api_base" -> BackendApiBase(self)

\* ClientBase::request.  reqwest keeps an error met while the request is built
\* (here: an API key that is no header value) inside the builder; send() then
\* returns it without any exchange.  The query is kept beside the URL it is
\* appended to.
BearerAuth(request, api_key) ==
    IF IsHeaderValue(api_key)
    THEN [request EXCEPT !.headers = @ \cup {<<"authorization", "Bearer " \o Text(api_key)>>}]
    ELSE [request EXCEPT !.err = TRUE]

\* |req| req.query(query) and |req| req.json(json), the closures of get and post.
WithQuery(request, query) == [request EXCEPT !.query = query]

WithJson(request, json) ==
    [request EXCEPT !.json = Some(json),
                    !.headers = @ \cup {<<"content-type", "application/json">>}]

ClientBaseRequest(base, method, route) ==
    BearerAuth([method |-> method,
                url |-> ClientBaseApiBase(base) \o route,
                headers |-> ClientBaseHeaders(base),
                query |-> <<>>,
                json |-> None,
                err |-> FALSE],
               ClientBaseApiKey(base))

\* ClientBase::get / ClientBase::post, up to the request handed to resolve_response.
ClientBaseGet(base, route, query) == WithQuery(ClientBaseRequest(base, "GET", route), query)

ClientBasePost(base, route, json) == WithJson(ClientBaseRequest(base, "POST", route), json)

\* ReqClient::get / ReqClient::post of each backend, and ClientEnum's forwarding.
OpenAIGet(self, route, query) == ClientBaseGet(self.base, route, query)

OpenAIPost(self, route, json) == ClientBasePost(self.base, route, json)

AzureOpenAIGet(self, route, query) ==
    ClientBaseGet(self.base, route_with_deployment(self, route), query)

AzureOpenAIPost(self, route, json) ==
    ClientBasePost(self.base, route_with_deployment(self, route), json)

ClientEnumGet(self, route, query) ==
    CASE self.kind = "OpenAI" -> OpenAIGet(self, route, query)
      [] self.kind = "AzureOpenAI" -> AzureOpenAIGet(self, route, query)

ClientEnumPost(self, route, json) ==
    CASE self.kind = "OpenAI" -> OpenAIPost(self, route, json)
      [] self.kind = "AzureOpenAI" -> AzureOpenAIPost(self, route, json)

\* http::StatusCode::is_success
is_success(status) == 200 <= status /\ status < 300

\* A bug ResolveBody could have: the body's shape, not the status, selects the schema.
ResolveBodyByShape(status, bytes) ==
    LET data == DecodeChatResponse(bytes)
        api_error == DecodeApiErrorResponse(bytes)
    IN  IF data # <<>> THEN Ok(data[1])
        ELSE IF api_error # <<>> THEN ErrApiError(api_error[1])
        ELSE ErrJSONDeserialize

\* A bug ResolveBody could have: an error body that does not decode is
\* swallowed into an API error without content.
ResolveBodyDefaulting(status, bytes) ==
    IF ~(200 <= status /\ status < 300)
    THEN LET api_error == DecodeApiErrorResponse(bytes)
         IN  IF api_error = <<>>
             THEN ErrApiError([error |-> [message |-> <<>>, type |-> <<>>,
                                          param |-> None, code |-> None]])
             ELSE ErrApiError(api_error[1])
    ELSE LET data == DecodeChatResponse(bytes)
         IN  IF data = <<>> THEN ErrJSONDeserialize ELSE Ok(data[1])

\* resolve_response once status and body bytes are there (T = ChatResponse).
ResolveBody(status, bytes) ==
    IF ~is_success(status)
    THEN LET api_error == DecodeApiErrorResponse(bytes)
         IN  IF api_error = <<>> THEN ErrJSONDeserialize ELSE ErrApiError(api_error[1])
    ELSE LET data == DecodeChatResponse(bytes)
         IN  IF data = <<>> THEN ErrJSONDeserialize ELSE Ok(data[1])

(* ------------------------- calls in flight --------------------------- *)

Slots == 1..NCalls

NoBody == [t |-> "none"]
NoResult == [kind |-> "none"]

Idle ==
    [pc |-> "idle", via |-> "", method |-> "", route |-> <<>>, query |-> <<>>,
     json |-> None, request |-> None, sent |-> 0, fault |-> "none", status |-> 0,
     body |-> NoBody, result |-> NoResult]

\* A call run to its first suspension point, request.send().await: the
\* request is assembled; a request that holds a builder error ends the call
\* there with that error, any other one is sent.
Started(via, method, route, query, json, request) ==
    [Idle EXCEPT !.via = via, !.method = method, !.route = route,
                 !.query = query, !.json = json, !.request = Some(request),
                 !.pc = IF request.err THEN "done" ELSE "sending",
                 !.sent = IF request.err THEN 0 ELSE 1,
                 !.result = IF request.err THEN ErrReqwest ELSE NoResult]

Begin(c, via, method, route, query, json, request) ==
    /\ calls[c].pc = "idle"
    /\ calls' = [calls EXCEPT ![c] = Started(via, method, route, query, json, request)]
    /\ UNCHANGED <<client, given, lastOp, builder, chat, template, objects, rendered>>

CallGet(c, via, route, query) ==
    Begin(c, via, "GET", route, query, None, ClientEnumGet(client, route, query))

CallPost(c, via, route, json) ==
    Begin(c, via, "POST", route, <<>>, Some(json), ClientEnumPost(client, route, json))

\* A bug SendFails could have: the exchange is sent again after a fault.
SendFailsRetry(c) ==
    /\ calls[c].pc = "sending"
    /\ calls' = IF calls[c].sent < 2
                THEN [calls EXCEPT ![c].sent = @ + 1, ![c].fault = "send"]
                ELSE [calls EXCEPT ![c].pc = "done", ![c].fault = "send",
                                   ![c].result = ErrReqwest]
    /\ UNCHANGED <<client, given, lastOp, builder, chat, template, objects, rendered>>

\* request.send().await? fails: a connection, TLS or timeout fault.  `fault`
\* records where the transport failed.
SendFails(c) ==
    /\ calls[c].pc = "sending"
    /\ calls' = [calls EXCEPT ![c].pc = "done", ![c].fault = "send",
                              ![c].result = ErrReqwest]
    /\ UNCHANGED <<client, given, lastOp, builder, chat, template, objects, rendered>>

\* request.send().await? yields the response; response.status() is read.
ResponseArrives(c, status) ==
    /\ calls[c].pc = "sending"
    /\ calls' = [calls EXCEPT ![c].pc = "reading", ![c].status = status]
    /\ UNCHANGED <<client, given, lastOp, builder, chat, template, objects, rendered>>

\* response.bytes().await? fails.
BodyFails(c) ==
    /\ calls[c].pc = "reading"
    /\ calls' = [calls EXCEPT ![c].pc = "done", ![c].fault = "body",
                              ![c].result = ErrReqwest]
    /\ UNCHANGED <<client, given, lastOp, builder, chat, template, objects, rendered>>

\* response.bytes().await? yields the body; the rest of resolve_response runs.
BodyArrives(c, bytes) ==
    /\ calls[c].pc = "reading"
    /\ calls' = [calls EXCEPT ![c].pc = "done", ![c].body = bytes,
                              ![c].result = ResolveBody(calls[c].status, bytes)]
    /\ UNCHANGED <<client, given, lastOp, builder, chat, template, objects, rendered>>

\* A bug Cancel could have: dropping one future tears down every exchange in flight.
CancelAll(c) ==
    /\ calls[c].pc \in {"sending", "reading"}
    /\ calls' = [d \in Slots |->
                    IF calls[d].pc \in {"sending", "reading"}
                    THEN [calls[d] EXCEPT !.pc = "cancelled"]
                    ELSE calls[d]]
    /\ UNCHANGED <<client, given, lastOp, builder, chat, template, objects, rendered>>

\* The caller drops the future at a suspension point.
Cancel(c) ==
    /\ calls[c].pc \in {"sending", "reading"}
    /\ calls' = [calls EXCEPT ![c].pc = "cancelled"]
    /\ UNCHANGED <<client, given, lastOp, builder, chat, template, objects, rendered>>

\* The caller takes the result; its slot is free for the next call.
Return(c) ==
    /\ calls[c].pc \in {"done", "cancelled"}
    /\ calls' = [calls EXCEPT ![c] = Idle]
    /\ UNCHANGED <<client, given, lastOp, builder, chat, template, objects, rendered>>

\* headers(), api_key() or api_base(), on the backend or through ClientEnum.
Accessor(op, via) ==
    /\ lastOp' = [op |-> op, via |-> via, outcome |-> ClientEnumAccessor(client, op)]
    /\ UNCHANGED <<client, given, calls, builder, chat, template, objects, rendered>>

(* ----------------------- api/extraction_prompt.rs -------------------- *)

\* HashMap::get on the mapping, a sequence of <<key, value>> entries with
\* distinct keys in the map's iteration order.
RECURSIVE MapGet(_, _)
MapGet(map, key) ==
    IF map = <<>> THEN None
    ELSE IF Text(Head(map)[1]) = Text(key) THEN Some(Head(map)[2])
    ELSE MapGet(Tail(map), key)

\* A bug FieldLine could have: a field the mapping does not name is left out.
FieldLineOmitAbsent(field, map) ==
    LET value == MapGet(map, field.name)
    IN  IF IsSome(value)
        THEN field.name \o L(" (") \o field.field_type \o L("): ") \o Unwrap(value) \o L(LF)
        ELSE <<>>

\* One turn of the loop over self.fields.
FieldLine(field, map) ==
    LET value == MapGet(map, field.name)
    IN  IF IsSome(value)
        THEN field.name \o L(" (") \o field.field_type \o L("): ") \o Unwrap(value) \o L(LF)
        ELSE field.name \o L(" (") \o field.field_type \o L("): ") \o L(LF)

RECURSIVE FieldLines(_, _)
FieldLines(fields, map) ==
    IF fields = <<>> THEN <<>>
    ELSE FieldLine(Head(fields), map) \o FieldLines(Tail(fields), map)

PromptHead(self) ==
    (IF IsSome(self.system_input)
     THEN L("System Input: ") \o Unwrap(self.system_input) \o L(LF) ELSE <<>>)
    \o (IF IsSome(self.user_input)
        THEN L("User Input: ") \o Unwrap(self.user_input) \o L(LF) ELSE <<>>)
    \o L("JSON INSTRUCT with Fields:") \o L(LF)

\* PromptTemplate::generate_prompt
generate_prompt(self, map) == PromptHead(self) \o FieldLines(self.fields, map)

\* A render of the template with the mapping as it stands.
Render ==
    /\ Len(rendered) < MaxRenders
    /\ rendered' = Append(rendered, [objects |-> objects,
                                     prompt |-> generate_prompt(template, objects)])
    /\ UNCHANGED <<client, given, calls, lastOp, builder, chat, template, objects>>

\* The same mapping in another iteration order (a HashMap promises none).
Reorder(other) ==
    /\ other # objects
    /\ Len(other) = Len(objects)
    /\ \A i \in 1..Len(objects) : \E j \in 1..Len(other) : other[j] = objects[i]
    /\ objects' = other
    /\ UNCHANGED <<client, given, calls, lastOp, builder, chat, template, rendered>>

\* The caller drops the prompts it holds.
Forget ==
    /\ rendered # <<>>
    /\ rendered' = <<>>
    /\ UNCHANGED <<client, given, calls, lastOp, builder, chat, template, objects>>

(* ------------------- api/chat.rs: request and builder ---------------- *)

\* The Option fields of CreateChatRequest, each with skip_serializing_if.
OptionalFields ==
    {"temperature", "top_p", "n", "stream", "stop", "max_tokens",
     "presence_penalty", "frequency_penalty", "logit_bias", "user"}

RequestFields == {"model", "messages"} \cup OptionalFields

\* CreateChatRequest::default(): an empty model, no message, every option None.
DefaultRequest ==
    [f \in RequestFields |->
        IF f = "model" THEN <<>> ELSE IF f = "messages" THEN <<>> ELSE None]

\* CreateChatRequestBuilder::default(): nothing set.  A builder field is
\* None, or Some of the field's value.
DefaultBuilder == [f \in RequestFields |-> None]

\* A setter: .model(..), .messages(..), .temperature(..), ...  With
\* strip_option the setter of an Option field takes the bare value.
SetterValue(f, value) ==
    IF f \in OptionalFields THEN Some(Some(value)) ELSE Some(value)

\* build() as derive_builder generates it under the struct-level `default`:
\* a field never set takes the field of CreateChatRequest::default(); no
\* field is required and no validation runs.
BuildRequest(b) ==
    Ok([f \in RequestFields |-> IF IsSome(b[f]) THEN Unwrap(b[f]) ELSE DefaultRequest[f]])

\* #[derive(Serialize)] of ChatCompletionMessage: name has no
\* skip_serializing_if, so None is written as null.
MessageToJson(m) ==
    JObj([role |-> JStr(L(RoleWire(m.role))),
          content |-> JStr(m.content),
          name |-> IF IsSome(m.name) THEN JStr(Unwrap(m.name)) ELSE JNull])

\* #[derive(Serialize)] of CreateChatRequest.  The value of an option is
\* held as the JSON it serializes to.
RequestToJson(req) ==
    JObj([f \in {"model", "messages"} \cup {o \in OptionalFields : IsSome(req[o])} |->
            IF f = "model" THEN JStr(req.model)
            ELSE IF f = "messages"
                 THEN JArr([i \in 1..Len(req.messages) |-> MessageToJson(req.messages[i])])
                 ELSE Unwrap(req[f])])

\* Chat::create: self.client.post("/chat/completions", req), to its suspension.
ChatCreate(req) ==
    LET json == RequestToJson(req)
    IN  Started("ClientEnum", "POST", L("/chat/completions"), <<>>, Some(json),
                ClientEnumPost(client, L("/chat/completions"), json))

\* The builder chain of create_with_template.
TemplateBuilder(self, map, model) ==
    LET prompt == generate_prompt(self, map)
        message == [role |-> "User", content |-> prompt, name |-> None]
    IN  [DefaultBuilder EXCEPT !["model"] = SetterValue("model", model),
                               !["messages"] = SetterValue("messages", <<message>>)]

\* chat.from is the builder build() was called on.
NoChat == [op |-> "none", from |-> DefaultBuilder, result |-> NoResult, posted |-> FALSE]

\* One setter call on the builder (the caller calls build() once per builder).
Set(f, value) ==
    /\ chat.op = "none"
    /\ builder' = [builder EXCEPT ![f] = SetterValue(f, value)]
    /\ UNCHANGED <<client, given, calls, lastOp, chat, template, objects, rendered>>

\* build() on the builder as it stands.
Build ==
    /\ chat.op = "none"
    /\ chat' = [op |-> "build", from |-> builder, result |-> BuildRequest(builder),
                posted |-> FALSE]
    /\ UNCHANGED <<client, given, calls, lastOp, builder, template, objects, rendered>>

\* Chat::create with the request built.
Create ==
    /\ chat.op = "build"
    /\ chat.result.kind = "Ok"
    /\ ~chat.posted
    /\ calls[1].pc = "idle"
    /\ chat' = [chat EXCEPT !.posted = TRUE]
    /\ calls' = [calls EXCEPT ![1] = ChatCreate(chat.result.value)]
    /\ UNCHANGED <<client, given, lastOp, builder, template, objects, rendered>>

\* Chat::create_with_template, up to the suspension in post or to the early
\* return of a build failure.
CreateWithTemplate(model) ==
    LET from == TemplateBuilder(template, objects, model)
        built == BuildRequest(from)
        result == IF built.kind = "Ok" THEN built
                  ELSE ErrInvalidArgument("Failed to build CreateChatRequest")
    IN  /\ chat.op = "none"
        /\ calls[1].pc = "idle"
        /\ chat' = [op |-> "create_with_template", from |-> from, result |-> result,
                    posted |-> (result.kind = "Ok")]
        /\ calls' = IF result.kind = "Ok"
                    THEN [calls EXCEPT ![1] = ChatCreate(result.value)]
                    ELSE calls
        /\ UNCHANGED <<client, given, lastOp, builder, template, objects, rendered>>

\* The caller is done with the builder and its request, and starts afresh.
NewBuilder ==
    /\ chat.op # "none"
    /\ calls[1].pc = "idle"
    /\ builder' = DefaultBuilder
    /\ chat' = NoChat
    /\ UNCHANGED <<client, given, calls, lastOp, template, objects, rendered>>

(* ------------------------------ inputs ------------------------------- *)

SeqsUpTo(S, n) == UNION {[1..k -> S] : k \in 0..n}

Vias == {"direct", "ClientEnum"}

ApiKeys == {L("sk-1"), <<"sk", LF, "2">>}

OrgIds == {None, Some(L("org-1")), Some(<<"org", LF, "1">>)}

OpenAIArgs == [kind : {"OpenAI"}, api_key : ApiKeys, org_id : OrgIds]

AzureArgs ==
    [kind : {"AzureOpenAI"}, api_key : ApiKeys, resource_name : {L("acme")},
     deployment_id : {L("gpt-x")}, api_version : {L("2023-05-15")}]

Routes == {L("/chat/completions"), L("/models")}

Queries == {<<>>, L("limit=1")}

Payloads == {JObj([model |-> JStr(L("gpt-x")), messages |-> JArr(<<>>)])}

Statuses == {199, 200, 299, 300, 429}

ChatFields ==
    [id |-> JStr(L("chatcmpl-1")), object |-> JStr(L("chat.completion")),
     created |-> JNum(1),
     choices |-> JArr(<<JObj([message |-> JObj([role |-> JStr(L("assistant")),
                                                content |-> JStr(L("hi"))]),
                              finish_reason |-> JStr(L("stop")),
                              index |-> JNum(0)])>>),
     usage |-> JObj([prompt_tokens |-> JNum(1), completion_tokens |-> JNum(2),
                     total_tokens |-> JNum(3)])]

ErrorFields ==
    [error |-> JObj([message |-> JStr(L("Rate limit reached")),
                     type |-> JStr(L("rate_limit_error")),
                     param |-> JNull, code |-> JStr(L("rate_limit"))])]

BodyChat == JObj(ChatFields)
BodyError == JObj(ErrorFields)
BodyErrorBare ==
    JObj([error |-> JObj([message |-> JStr(L("bad key")), type |-> JStr(L("auth"))])])
\* An object that matches both schemas: serde ignores the keys a type does not name.
BodyBoth == JObj([k \in DOMAIN ChatFields \cup DOMAIN ErrorFields |->
                    IF k \in DOMAIN ChatFields THEN ChatFields[k] ELSE ErrorFields[k]])
BodyErrorNoType == JObj([error |-> JObj([message |-> JStr(L("bad key"))])])
BodyChatNoUsage == JObj([k \in DOMAIN ChatFields \ {"usage"} |-> ChatFields[k]])
BodyEmptyObject == JObj(<<>>)

Bodies ==
    {BodyChat, BodyError, BodyErrorBare, BodyBoth, BodyErrorNoType, BodyChatNoUsage,
     BodyEmptyObject, NotJson}

NoOp == [op |-> "none", via |-> "", outcome |-> Returned(<<>>)]

Ops == {"headers", "api_key", "api_base"}

FieldValues ==
    {[name |-> L("a"), field_type |-> L("string"), description |-> L("first")],
     [name |-> L("b"), field_type |-> L("number"), description |-> L("second")]}

MapKeys == {L("a"), L("b"), L("c")}

MapValues == {L("x"), <<"x", LF, "y">>}

Templates ==
    [fields : SeqsUpTo(FieldValues, MaxFields),
     system_input : {None, Some(L("extract"))},
     user_input : {None, Some(L("text"))}]

Mappings ==
    {m \in SeqsUpTo(MapKeys \X MapValues, 2) :
        \A i, j \in 1..Len(m) : i # j => m[i][1] # m[j][1]}

ModelNames == {<<>>, L("gpt-x")}

MessageValues ==
    {[role |-> "User", content |-> L("hi"), name |-> None],
     [role |-> "System", content |-> L("be brief"), name |-> Some(L("bob"))]}

\* The value each option's setter is called with, as the JSON it serializes to.
OptionValue(f) ==
    CASE f \in {"temperature", "top_p", "presence_penalty", "frequency_penalty"} -> JNum(1)
      [] f = "n" -> JNum(2)
      [] f = "max_tokens" -> JNum(16)
      [] f = "stream" -> JBool(FALSE)
      [] f = "stop" -> JStr(L("END"))
      [] f = "logit_bias" -> JObj([t50256 |-> JNum(-100)])
      [] f = "user" -> JStr(L("u-1"))

Template0 ==
    [fields |-> <<[name |-> L("a"), field_type |-> L("string"), description |-> L("first")]>>,
     system_input |-> None, user_input |-> None]

(* --------------------------- specifications -------------------------- *)

\* One caller at a time through one backend: every argument string, status
\* and body of the input sets.
Init ==
    /\ given \in OpenAIArgs \cup AzureArgs
    /\ client = Construct(given)
    /\ calls = [c \in Slots |-> Idle]
    /\ lastOp = NoOp
    /\ builder = DefaultBuilder
    /\ chat = NoChat
    /\ template = Template0
    /\ objects = <<>>
    /\ rendered = <<>>

Next ==
    \/ \E via \in Vias, route \in Routes, query \in Queries : CallGet(1, via, route, query)
    \/ \E via \in Vias, route \in Routes, json \in Payloads : CallPost(1, via, route, json)
    \/ SendFails(1)
    \/ \E status \in Statuses : ResponseArrives(1, status)
    \/ BodyFails(1)
    \/ \E bytes \in Bodies : BodyArrives(1, bytes)
    \/ Cancel(1)
    \/ Return(1)
    \/ \E op \in Ops, via \in Vias : Accessor(op, via)

Spec == Init /\ [][Next]_vars

\* Concurrent callers through one backend.
ConcurrentArgs ==
    {a \in OpenAIArgs \cup AzureArgs :
        a.api_key = L("sk-1") /\ (a.kind = "OpenAI" => a.org_id = Some(L("org-1")))}

InitConcurrent ==
    /\ given \in ConcurrentArgs
    /\ client = Construct(given)
    /\ calls = [c \in Slots |-> Idle]
    /\ lastOp = NoOp
    /\ builder = DefaultBuilder
    /\ chat = NoChat
    /\ template = Template0
    /\ objects = <<>>
    /\ rendered = <<>>

NextConcurrent ==
    \E c \in Slots :
        \/ \E route \in Routes : CallGet(c, "ClientEnum", route, <<>>)
        \/ \E route \in Routes, json \in Payloads : CallPost(c, "direct", route, json)
        \/ SendFails(c)
        \/ \E status \in {200, 429} : ResponseArrives(c, status)
        \/ BodyFails(c)
        \/ \E bytes \in {BodyChat, BodyError} : BodyArrives(c, bytes)
        \/ Cancel(c)
        \/ Return(c)

SpecConcurrent == InitConcurrent /\ [][NextConcurrent]_vars

\* The request builder and the chat calls.
InitChat ==
    /\ given \in {a \in ConcurrentArgs : a.kind = "OpenAI"}
    /\ client = Construct(given)
    /\ calls = [c \in Slots |-> Idle]
    /\ lastOp = NoOp
    /\ builder = DefaultBuilder
    /\ chat = NoChat
    /\ template = Template0
    /\ objects = <<<<L("a"), L("x")>>>>
    /\ rendered = <<>>

NextChat ==
    \/ \E model \in ModelNames : Set("model", model)
    \/ \E messages \in SeqsUpTo(MessageValues, MaxMessages) : Set("messages", messages)
    \/ \E f \in OptionalFields : Set(f, OptionValue(f))
    \/ Build
    \/ Create
    \/ \E model \in ModelNames : CreateWithTemplate(model)
    \/ SendFails(1)
    \/ Cancel(1)
    \/ Return(1)
    \/ NewBuilder

SpecChat == InitChat /\ [][NextChat]_vars

\* Renders of one template.
InitTemplate ==
    /\ given \in {a \in ConcurrentArgs : a.kind = "OpenAI"}
    /\ client = Construct(given)
    /\ calls = [c \in Slots |-> Idle]
    /\ lastOp = NoOp
    /\ builder = DefaultBuilder
    /\ chat = NoChat
    /\ template \in Templates
    /\ objects \in Mappings
    /\ rendered = <<>>

NextTemplate ==
    \/ Render
    \/ \E other \in Mappings : Reorder(other)
    \/ Forget

SpecTemplate == InitTemplate /\ [][NextTemplate]_vars

(* ------------------------------ claims ------------------------------- *)

InSuccessRange(status) == status \in 200..299

ReadBody(c) == calls[c].body.t # "none"

\* The bodies of the input set that hold every key of the success schema, and
\* those that hold a whole {error: {message, type, ...}} object.
SuccessBodies == {BodyChat, BodyBoth}
ErrorBodies == {BodyError, BodyErrorBare, BodyBoth}

ChatValue ==
    [id |-> L("chatcmpl-1"), object |-> L("chat.completion"), created |-> 1,
     choices |-> <<[message |-> [role |-> "Assistant", content |-> L("hi"), name |-> None],
                    finish_reason |-> L("stop"), index |-> 0]>>,
     usage |-> [prompt_tokens |-> 1, completion_tokens |-> 2, total_tokens |-> 3]]

\* C1: in resolve_response the status code alone selects the schema: a
\* non-success status never yields a success value and a success status never
\* yields an API error, whatever the body; a success status with a well-formed
\* success body yields the decoded fields, and a non-success status with a
\* well-formed error body yields an API error with its message and type.
C1_StatusSelectsSchema ==
    \A c \in Slots : ReadBody(c) =>
        LET status == calls[c].status
            body == calls[c].body
            result == calls[c].result
        IN  /\ ~InSuccessRange(status) => result.kind # "Ok"
            /\ InSuccessRange(status) => result.kind # "ApiError"
            /\ InSuccessRange(status) /\ body \in SuccessBodies =>
                    result.kind = "Ok" /\ result.value = ChatValue
            /\ ~InSuccessRange(status) /\ body \in {BodyError, BodyBoth} =>
                    /\ result.kind = "ApiError"
                    /\ result.error.error.message = L("Rate limit reached")
                    /\ result.error.error.type = L("rate_limit_error")
            /\ ~InSuccessRange(status) /\ body = BodyErrorBare =>
                    /\ result.kind = "ApiError"
                    /\ result.error.error.message = L("bad key")
                    /\ result.error.error.type = L("auth")

\* A 429 whose body matches both schemas ended as an API error.
C1_Witness ==
    \E c \in Slots :
        /\ calls[c].status = 429
        /\ calls[c].body = BodyBoth
        /\ calls[c].result.kind = "ApiError"

\* C2: a decode failure on either path is a JSON-decode error and nothing
\* else: a success status with a body that does not match the success schema,
\* and a non-success status with a body that does not match the error schema
\* (also when that body is a well-formed success payload), both end as
\* JSONDeserialize.
C2_DecodeFailureIsJsonError ==
    \A c \in Slots : ReadBody(c) =>
        LET status == calls[c].status
            body == calls[c].body
            result == calls[c].result
        IN  /\ InSuccessRange(status) /\ body \notin SuccessBodies =>
                    result = ErrJSONDeserialize
            /\ ~InSuccessRange(status) /\ body \notin ErrorBodies =>
                    result = ErrJSONDeserialize

\* A 429 with a well-formed success payload ended as a JSON-decode error.
C2_Witness ==
    \E c \in Slots :
        /\ calls[c].status = 429
        /\ calls[c].body = BodyChat
        /\ calls[c].result.kind = "JSONDeserialize"

\* What a builder lacks when model or messages is empty or was never set.
MissingRequired(b) ==
    \/ ~IsSome(b.model)
    \/ Text(Unwrap(b.model)) = ""
    \/ ~IsSome(b.messages)
    \/ Len(Unwrap(b.messages)) = 0

\* C3: build() on a builder whose messages or model is empty or unset fails
\* with an invalid-argument error and no POST is issued, by direct use of the
\* builder and in create_with_template.
C3_BuildRejectsMissing ==
    (chat.op # "none" /\ MissingRequired(chat.from)) =>
        /\ chat.result.kind = "InvalidArgument"
        /\ ~chat.posted
        /\ calls[1].pc = "idle"

RECURSIVE HasNull(_)
HasNull(v) ==
    \/ v.t = "null"
    \/ v.t = "obj" /\ \E k \in DOMAIN v.f : HasNull(v.f[k])
    \/ v.t = "arr" /\ \E i \in 1..Len(v.a) : HasNull(v.a[i])

\* C4: a builder with a non-empty message sequence and a non-empty model
\* builds, and the serialized body holds no key for an optional field left
\* unset, at any level: no unset tuning parameter, no unset name of a
\* message, and no null.
C4_UnsetOmitted ==
    (chat.op # "none" /\ ~MissingRequired(chat.from)) =>
        /\ chat.result.kind = "Ok"
        /\ LET req == chat.result.value
               json == RequestToJson(req)
           IN  /\ ~HasNull(json)
               /\ \A f \in OptionalFields : ~IsSome(req[f]) => f \notin DOMAIN json.f
               /\ \A i \in 1..Len(req.messages) :
                    ~IsSome(req.messages[i].name) =>
                        "name" \notin DOMAIN json.f.messages.a[i].f

\* C5: on the gateway-routed backend of resource acme, deployment gpt-x and
\* version 2023-05-15, a call with route /chat/completions goes to
\* /openai/deployments/gpt-x/chat/completions?api-version=2023-05-15 on
\* https://acme.openai.azure.com, one '/' between deployment and route.
C5_GatewayPath ==
    \A c \in Slots :
        (/\ IsSome(calls[c].request)
         /\ client.kind = "AzureOpenAI"
         /\ Text(calls[c].route) = "/chat/completions") =>
            Text(Unwrap(calls[c].request).url) =
                "https://acme.openai.azure.com"
                    \o "/openai/deployments/gpt-x/chat/completions?api-version=2023-05-15"

\* C6: the request a direct backend assembles carries the headers its
\* headers() returns: the organization header with the identifier given at
\* construction, none when none was given, bearer authentication with the API
\* key, and the URL base + route.
C6_DirectRequestHeaders ==
    \A c \in Slots :
        (IsSome(calls[c].request) /\ client.kind = "OpenAI") =>
            LET request == Unwrap(calls[c].request)
            IN  /\ Text(request.url) = "https://api.openai.com/v1" \o Text(calls[c].route)
                /\ IsHeaderValue(given.api_key) =>
                        <<"authorization", "Bearer " \o Text(given.api_key)>> \in request.headers
                /\ ~IsSome(given.org_id) =>
                        \A h \in request.headers : h[1] # ORGANIZATION_HEADER
                /\ (IsSome(given.org_id) /\ IsHeaderValue(Unwrap(given.org_id))) =>
                        <<ORGANIZATION_HEADER, Text(Unwrap(given.org_id))>> \in request.headers

\* C7: no operation of the capability interface panics, whatever the strings
\* the backend was constructed with, and get and post end with a success
\* value or a network, API or JSON-decode error.
C7_NoPanic ==
    /\ ~lastOp.outcome.panicked
    /\ \A c \in Slots : calls[c].pc = "done" =>
            calls[c].result.kind \in {"Ok", "Reqwest", "ApiError", "JSONDeserialize"}

\* The value the mapping holds for a name, read off the mapping as a set of
\* entries; the empty string when it holds none.
ValueOf(map, name) ==
    IF \E i \in 1..Len(map) : Text(map[i][1]) = Text(name)
    THEN map[CHOOSE i \in 1..Len(map) : Text(map[i][1]) = Text(name)][2]
    ELSE <<>>

RECURSIVE ExpectedLines(_, _, _)
ExpectedLines(fields, map, k) ==
    IF k > Len(fields) THEN ""
    ELSE Text(fields[k].name) \o " (" \o Text(fields[k].field_type) \o "): "
            \o Text(ValueOf(map, fields[k].name)) \o "\n"
            \o ExpectedLines(fields, map, k + 1)

ExpectedHead(self) ==
    (IF IsSome(self.system_input)
     THEN "System Input: " \o Text(Unwrap(self.system_input)) \o "\n" ELSE "")
    \o (IF IsSome(self.user_input)
        THEN "User Input: " \o Text(Unwrap(self.user_input)) \o "\n" ELSE "")
    \o "JSON INSTRUCT with Fields:\n"

\* The lines of a string: its line feeds.
LineCount(s) == Cardinality({i \in 1..Len(s) : s[i] = LF})

HeadLines(self) ==
    1 + (IF IsSome(self.system_input) THEN 1 ELSE 0)
      + (IF IsSome(self.user_input) THEN 1 ELSE 0)

SingleLine(s) == \A i \in 1..Len(s) : s[i] # LF

\* Renders of one mapping agree, whatever order the mapping was in; the
\* prompt is the head and then one entry per field descriptor in stored
\* order, `name (type): value` closed by a line feed, the value empty when
\* the mapping does not name the field; nothing else is in it.
RenderShape ==
    /\ \A i, j \in 1..Len(rendered) : Text(rendered[i].prompt) = Text(rendered[j].prompt)
    /\ \A i \in 1..Len(rendered) :
            Text(rendered[i].prompt) =
                ExpectedHead(template) \o ExpectedLines(template.fields, objects, 1)

\* C8 as stated: besides RenderShape, the output has exactly one line per
\* field descriptor.
C8_OneLinePerField ==
    /\ RenderShape
    /\ \A i \in 1..Len(rendered) :
            LineCount(rendered[i].prompt) = HeadLines(template) + Len(template.fields)

\* C8, amended: RenderShape, and the output has exactly one line per field
\* descriptor when no value the mapping holds for a field has a line break in it.
C8_RenderDeterministic ==
    /\ RenderShape
    /\ (\A k \in 1..Len(template.fields) :
            SingleLine(ValueOf(objects, template.fields[k].name))) =>
        \A i \in 1..Len(rendered) :
            LineCount(rendered[i].prompt) = HeadLines(template) + Len(template.fields)

\* Two renders with the mapping in two orders, of a template with a field the
\* mapping does not name, the mapping naming a key that is no field.
C8_Witness ==
    /\ Len(rendered) = 2
    /\ rendered[1].objects # rendered[2].objects
    /\ \E k \in 1..Len(template.fields) :
            \A i \in 1..Len(objects) : Text(objects[i][1]) # Text(template.fields[k].name)
    /\ \E i \in 1..Len(objects) :
            \A k \in 1..Len(template.fields) :
                Text(objects[i][1]) # Text(template.fields[k].name)

\* What a call sends and returns, from its own route, payload and response.
OwnRequest(c) ==
    IF calls[c].method = "GET"
    THEN ClientEnumGet(Construct(given), calls[c].route, calls[c].query)
    ELSE ClientEnumPost(Construct(given), calls[c].route, Unwrap(calls[c].json))

CallIsItsOwn(c) ==
    /\ IsSome(calls[c].request) => Unwrap(calls[c].request) = OwnRequest(c)
    /\ ReadBody(c) => calls[c].result = ResolveBody(calls[c].status, calls[c].body)

\* C9: under every interleaving of calls through one backend, the backend
\* keeps the configuration it was constructed with, a step changes the state
\* of at most one call, and every call sends the request and returns the
\* result that its own route, payload and response determine, also when
\* another call is cancelled while sending or reading.
C9_CallsIndependent ==
    /\ [](client = Construct(given) /\ \A c \in Slots : CallIsItsOwn(c))
    /\ [][/\ client' = client
          /\ given' = given
          /\ \A c, d \in Slots :
                (c # d /\ calls'[c] # calls[c]) => calls'[d] = calls[d]]_vars

\* One call was cancelled while another, still sending at that time or
\* later, went on to its result.
C9_Witness ==
    \E c, d \in Slots :
        /\ c # d
        /\ calls[c].pc = "cancelled"
        /\ calls[d].pc = "done"
        /\ calls[d].result.kind = "Ok"

\* C10: a call sends at most one exchange; a transport fault while sending,
\* or while reading the body after any status, ends it with the network
\* error, and nothing is sent after the fault.
C10_NoRetry ==
    \A c \in Slots :
        /\ calls[c].sent <= 1
        /\ calls[c].fault # "none" =>
                /\ calls[c].pc = "done"
                /\ calls[c].result = ErrReqwest
                /\ calls[c].sent = 1

\* The body of a 429 response could not be read.
C10_Witness ==
    \E c \in Slots :
        /\ calls[c].fault = "body"
        /\ calls[c].status = 429
        /\ calls[c].result.kind = "Reqwest"

====
